---- MODULE Spec2Model ----
(***************************************************************************)
(* Model of the Dialogflow book webhook (src/main.py).                     *)
(*                                                                         *)
(* A Python string is a sequence of one-character strings.  A piece of     *)
(* text that can go through the translator is a record                     *)
(*   [tpl |-> name of the f-string / literal, args |-> the interpolated    *)
(*    strings in order, lang |-> the language the text is written in].     *)
(***************************************************************************)
EXTENDS Integers, Sequences, FiniteSets, TLC

VARIABLES
    books_df,         \* the catalog: sequence of rows (module-level books_df)
    pc,               \* position of the handler / loader
    query_text,       \* queryResult.queryText
    intent,           \* queryResult.intent.displayName
    params,           \* queryResult.parameters
    detected_lang,    \* webhook local detected_lang
    translated_query, \* webhook local translated_query
    response_text,    \* webhook local response_text
    fulfillmentText,  \* the returned JSON field
    shown,            \* bookkeeping: what dispatch rendered, from which row, sampled or not
    trace,            \* bookkeeping: the calls the handler made, in order
    failed,           \* bookkeeping: the external translation calls that raised
    value,            \* a published_date cell handed to excel_date_to_str
    published_date    \* the cell after excel_date_to_str

vars == <<books_df, pc, query_text, intent, params, detected_lang,
          translated_query, response_text, fulfillmentText, shown, trace,
          failed, value, published_date>>

-----------------------------------------------------------------------------
(* Bounds *)

\* longest catalog drawn
MaxCatalog == 6
\* largest numeric cell handed to the date fixer
MaxNum == 60002
\* smallest numeric cell handed to the date fixer is -MinNumAbs
MinNumAbs == 2
\* longest text handed to the language detector on its own
MaxTextLen == 3

-----------------------------------------------------------------------------
(* Python string helpers *)

UpperAlpha == <<"A","B","C","D","E","F","G","H","I","J","K","L","M",
                "N","O","P","Q","R","S","T","U","V","W","X","Y","Z">>
LowerAlpha == <<"a","b","c","d","e","f","g","h","i","j","k","l","m",
                "n","o","p","q","r","s","t","u","v","w","x","y","z">>
DigitChars == <<"0","1","2","3","4","5","6","7","8","9">>

Range(s) == {s[i] : i \in DOMAIN s}

IsUpper(c) == c \in Range(UpperAlpha)
IsLower(c) == c \in Range(LowerAlpha)
IsLetter(c) == IsUpper(c) \/ IsLower(c)
IsDigit(c) == c \in Range(DigitChars)
\* \s of the re module, as far as the model's alphabet goes
IsSpace(c) == c \in {" ", "\t", "\n", "\r"}

LowerChar(c) ==
    IF IsUpper(c) THEN LowerAlpha[CHOOSE i \in 1..26 : UpperAlpha[i] = c] ELSE c
UpperChar(c) ==
    IF IsLower(c) THEN UpperAlpha[CHOOSE i \in 1..26 : LowerAlpha[i] = c] ELSE c

\* str.lower()
Lower(s) == [i \in 1..Len(s) |-> LowerChar(s[i])]

\* str.title(): a letter after a non-letter is upper-cased, any other lower-cased
Title(s) ==
    [i \in 1..Len(s) |->
        IF i = 1 \/ ~IsLetter(s[i-1]) THEN UpperChar(s[i]) ELSE LowerChar(s[i])]

\* str.strip()
RECURSIVE LStrip(_)
LStrip(s) == IF s # <<>> /\ IsSpace(Head(s)) THEN LStrip(Tail(s)) ELSE s
RECURSIVE RStrip(_)
RStrip(s) ==
    IF s # <<>> /\ IsSpace(s[Len(s)]) THEN RStrip(SubSeq(s, 1, Len(s) - 1)) ELSE s
Strip(s) == RStrip(LStrip(s))

\* str(n) for a natural number
RECURSIVE NatStr(_)
NatStr(n) ==
    IF n < 10 THEN <<DigitChars[n + 1]>>
    ELSE NatStr(n \div 10) \o <<DigitChars[(n % 10) + 1]>>
\* str(n) for an int
IntStr(n) == IF n < 0 THEN <<"-">> \o NatStr(-n) ELSE NatStr(n)

\* "%02d" / "%04d" of strftime
RECURSIVE ZeroPad(_, _)
ZeroPad(s, w) == IF Len(s) >= w THEN s ELSE ZeroPad(<<"0">> \o s, w)

\* sep.join(parts)
RECURSIVE Join(_, _)
Join(sep, parts) ==
    IF parts = <<>> THEN <<>>
    ELSE IF Len(parts) = 1 THEN parts[1]
    ELSE parts[1] \o sep \o Join(sep, Tail(parts))

\* lst[:n]
Take(lst, n) == SubSeq(lst, 1, IF Len(lst) < n THEN Len(lst) ELSE n)

-----------------------------------------------------------------------------
(* re.escape and the regular-expression search of Series.str.contains *)

\* the characters re.escape puts a backslash before
SpecialChars ==
    {"(", ")", "[", "]", "{", "}", "?", "*", "+", "-", "|", "^", "$", "\\",
     ".", "&", "~", "#", " ", "\t", "\n", "\r"}

RECURSIVE re_escape(_)
re_escape(s) ==
    IF s = <<>> THEN <<>>
    ELSE (IF Head(s) \in SpecialChars THEN <<"\\", Head(s)>> ELSE <<Head(s)>>)
         \o re_escape(Tail(s))

\* A pattern as a sequence of atoms: an escaped character and a plain character
\* stand for themselves, an unescaped dot stands for any character.
RECURSIVE Atoms(_)
Atoms(pat) ==
    IF pat = <<>> THEN <<>>
    ELSE IF Head(pat) = "\\" /\ Len(pat) >= 2
         THEN <<[any |-> FALSE, ch |-> pat[2]]>> \o Atoms(SubSeq(pat, 3, Len(pat)))
    ELSE IF Head(pat) = "."
         THEN <<[any |-> TRUE, ch |-> "."]>> \o Atoms(Tail(pat))
    ELSE <<[any |-> FALSE, ch |-> Head(pat)]>> \o Atoms(Tail(pat))

MatchesAt(atoms, s, off) ==
    /\ off + Len(atoms) <= Len(s)
    /\ \A k \in 1..Len(atoms) : atoms[k].any \/ atoms[k].ch = s[off + k]

\* re.search(pat, s) is not None
re_search(pat, s) ==
    LET atoms == Atoms(pat)
    IN  \E off \in 0..Len(s) : MatchesAt(atoms, s, off)

-----------------------------------------------------------------------------
(* datetime arithmetic, as CPython's datetime module computes it *)

DaysBeforeMonthTab == <<0, 31, 59, 90, 120, 151, 181, 212, 243, 273, 304, 334>>
DaysInMonthTab == <<31, 28, 31, 30, 31, 30, 31, 31, 30, 31, 30, 31>>

is_leap(y) == y % 4 = 0 /\ (y % 100 # 0 \/ y % 400 = 0)

days_before_year(y) ==
    (y - 1) * 365 + ((y - 1) \div 4) - ((y - 1) \div 100) + ((y - 1) \div 400)

days_before_month(y, m) ==
    DaysBeforeMonthTab[m] + (IF m > 2 /\ is_leap(y) THEN 1 ELSE 0)

\* date.toordinal() of y-m-d
ymd2ord(y, m, d) == days_before_year(y) + days_before_month(y, m) + d

\* date.fromordinal(n), as a record [y, m, d]
ord2ymd(ordinal) ==
    LET n0   == ordinal - 1
        n400 == n0 \div 146097
        r400 == n0 % 146097
        n100 == r400 \div 36524
        r100 == r400 % 36524
        n4   == r100 \div 1461
        r4   == r100 % 1461
        n1   == r4 \div 365
        n    == r4 % 365
        year == n400 * 400 + 1 + n100 * 100 + n4 * 4 + n1
        leap == n1 = 3 /\ (n4 # 24 \/ n100 = 3)
        mth  == (n + 50) \div 32
        prec == DaysBeforeMonthTab[mth] + (IF mth > 2 /\ leap THEN 1 ELSE 0)
        mth2 == IF prec > n THEN mth - 1 ELSE mth
        prec2 == IF prec > n
                 THEN prec - (DaysInMonthTab[mth2] + (IF mth2 = 2 /\ leap THEN 1 ELSE 0))
                 ELSE prec
    IN  IF n1 = 4 \/ n100 = 4
        THEN [y |-> year - 1, m |-> 12, d |-> 31]
        ELSE [y |-> year, m |-> mth2, d |-> n - prec2 + 1]

\* strftime("%d/%m/%Y")
strftime_dmy(dt) ==
    ZeroPad(NatStr(dt.d), 2) \o <<"/">> \o ZeroPad(NatStr(dt.m), 2) \o <<"/">>
    \o ZeroPad(NatStr(dt.y), 4)

-----------------------------------------------------------------------------
(* excel_date_to_str *)

\* A cell value: NaN, a str, a finite int/float (n is int(value)), a float
\* infinity (int(value) raises, the except branch returns str(value)), or a
\* datetime (n is its ordinal day).
NanCell == [kind |-> "nan", s |-> <<>>, n |-> 0]
StrCell(s) == [kind |-> "str", s |-> s, n |-> 0]
NumCell(n) == [kind |-> "num", s |-> <<>>, n |-> n]
DatetimeCell(n) == [kind |-> "datetime", s |-> <<>>, n |-> n]
InfCell == [kind |-> "inf", s |-> <<>>, n |-> 0]

\* datetime(1899, 12, 30) + timedelta(days=num), formatted
excel_serial_to_str(num) == strftime_dmy(ord2ymd(ymd2ord(1899, 12, 30) + num))

\* a slip in the serial-date guard: only serials above 59 are converted
excel_date_to_str_from60(v) ==
    CASE v.kind = "nan" -> <<>>
      [] v.kind = "str" -> Strip(v.s)
      [] v.kind = "num" ->
            IF 1000 <= v.n /\ v.n <= 2100 THEN IntStr(v.n)
            ELSE IF 59 < v.n /\ v.n < 60000 THEN excel_serial_to_str(v.n)
            ELSE IntStr(v.n)
      [] v.kind = "inf" -> <<"i","n","f">>
      [] OTHER -> strftime_dmy(ord2ymd(v.n))

excel_date_to_str(v) ==
    CASE v.kind = "nan" -> <<>>
      [] v.kind = "str" -> Strip(v.s)
      [] v.kind = "num" ->
            IF 1000 <= v.n /\ v.n <= 2100 THEN IntStr(v.n)
            ELSE IF 30 < v.n /\ v.n < 60000 THEN excel_serial_to_str(v.n)
            ELSE IntStr(v.n)
      [] v.kind = "inf" -> <<"i","n","f">>
      [] OTHER -> strftime_dmy(ord2ymd(v.n))

-----------------------------------------------------------------------------
(* Texts and the external translator and detector *)

Msg(tpl, args) == [tpl |-> tpl, args |-> args, lang |-> "en"]
\* a raw utterance, in a language nobody has told us
Raw(chars) == [tpl |-> "{}", args |-> <<chars>>, lang |-> "und"]
None == [tpl |-> "None", args |-> <<>>, lang |-> ""]

\* a character outside ASCII
NonAscii == "<U+00E9>"

Langs == {"en", "fr"}

\* GoogleTranslator(...).translate(text) when the service answers: the same
\* content, now written in the target language
GoogleTranslate(text, target) == [text EXCEPT !.lang = target]

\* ok: whether the external call returned (TRUE) or raised (FALSE)
translate_to_english(text, ok) ==
    IF ok THEN GoogleTranslate(text, "en") ELSE text

\* a slip in the except branch: the failure handler hands back nothing
translate_back_drop(text, target_lang, ok) ==
    IF target_lang # "en"
    THEN (IF ok THEN GoogleTranslate(text, target_lang) ELSE None)
    ELSE text

translate_back(text, target_lang, ok) ==
    IF target_lang # "en"
    THEN (IF ok THEN GoogleTranslate(text, target_lang) ELSE text)
    ELSE text

\* whether translate_back reaches the external service at all
BackCalls(target_lang) == target_lang # "en"

\* re.fullmatch(r"[A-Za-z0-9\s\?\!\'\,\.]+", text) is not None
ascii_fullmatch(chars) ==
    /\ Len(chars) >= 1
    /\ \A i \in 1..Len(chars) :
          \/ IsLetter(chars[i]) \/ IsDigit(chars[i]) \/ IsSpace(chars[i])
          \/ chars[i] \in {"?", "!", "'", ",", "."}

\* what langdetect.detect can do with a text: name a language, or raise
\* (it always raises on a text without features, such as the empty one)
DetectOutcomes(chars) == IF chars = <<>> THEN {"raise"} ELSE Langs \cup {"raise"}

safe_detect_language(text, outcome) ==
    IF outcome = "raise" THEN "en"
    ELSE IF outcome # "en" /\ ascii_fullmatch(text.args[1]) THEN "en"
    ELSE outcome

-----------------------------------------------------------------------------
(* The catalog *)

RowDune ==
    [title |-> <<"D","u","n","e">>, author |-> <<"H","a","l">>,
     genre |-> <<"S","c","i">>, publisher |-> <<"A","c","e">>,
     published_date |-> <<"1","9","6","5">>, pages |-> <<"4","1","2">>,
     average_rating |-> <<"4",".","2">>, description |-> <<"s","a","n","d">>,
     thumbnail |-> <<"u","1">>]

RowDusk ==
    [title |-> <<"D","u","s","k">>, author |-> <<"H","a","m">>,
     genre |-> <<"S","c","i","-","F","i">>, publisher |-> <<"T","o","r">>,
     published_date |-> <<"0","4","/","0","3","/","2","0","1","3">>,
     pages |-> <<"9","6">>, average_rating |-> <<"3",".","9">>,
     description |-> <<"d","a","r","k">>, thumbnail |-> <<"u","2">>]

\* n rows, all RowDune except row k (none when k = 0)
CatalogOf(n, k) == [i \in 1..n |-> IF i = k THEN RowDusk ELSE RowDune]
Catalogs == {CatalogOf(n, k) : n \in 0..MaxCatalog, k \in 0..MaxCatalog}

\* df[df[field].str.lower().str.contains(pat, na=False, regex=True)], as the
\* row numbers kept, in catalog order
str_contains(df, field, pat) ==
    SelectSeq([i \in 1..Len(df) |-> i],
              LAMBDA i : re_search(pat, Lower(df[i][field])))

\* match["title"].tolist()
titles_of(df, match) == [j \in 1..Len(match) |-> df[match[j]].title]

\* books_df.sample(1): a row number, or 0 for the ValueError on an empty frame
Sample(df) == IF Len(df) = 0 THEN {0} ELSE 1..Len(df)

\* params.get(key, "")
ParamGet(p, key) == IF key \in DOMAIN p THEN p[key] ELSE <<>>

-----------------------------------------------------------------------------
(* The intent handlers of webhook.  Each yields                            *)
(*   raised  - whether the branch ended in an unhandled exception,         *)
(*   text    - the response_text it rendered,                              *)
(*   row     - the row number of the record it shows (0: none),            *)
(*   sampled - whether that row came from books_df.sample(1).              *)

Rendered(text, row, sampled) ==
    [raised |-> FALSE, text |-> text, row |-> row, sampled |-> sampled]
Unhandled == [raised |-> TRUE, text |-> None, row |-> 0, sampled |-> TRUE]

DefaultText == Msg("Sorry, I didn't get that.", <<>>)

AllFields(r) ==
    <<r.title, r.author, r.genre, r.publisher, r.published_date, r.pages,
      r.average_rating, r.description, r.thumbnail>>
FieldsNoGenre(r) ==
    <<r.title, r.author, r.publisher, r.published_date, r.pages,
      r.average_rating, r.description, r.thumbnail>>

FoundTpl ==
    "I found a book for you!\nTitle: {}\nAuthor: {}\nGenre: {}\nPublisher: {}\nPublished Date: {}\nPages: {}\nAverage Rating: {}\nDescription: {}\nThumbnail: {}"
InsteadTpl ==
    "Sorry, I couldn't find a book titled '{}'. \nHow about this one instead?\nTitle: {}\nAuthor: {}\nPublisher: {}\nPublished Date: {}\nPages: {}\nAverage Rating: {}\nDescription: {}\nThumbnail: {}"
RecommendTpl ==
    "I recommend this book for you:\nTitle: {}\nAuthor: {}\nGenre: {}\nPublisher: {}\nPublished Date: {}\nPages: {}\nAverage Rating: {}\nDescription: {}\nThumbnail: {}"

\* a slip: the recommendation is drawn even though a title matched
search_book_always_samples(p, df, draw) ==
    LET title == Lower(ParamGet(p, "book_title"))
    IN  IF draw = 0 THEN Unhandled
        ELSE IF title # <<>>
        THEN Rendered(Msg(FoundTpl, AllFields(df[draw])), draw, TRUE)
        ELSE Rendered(Msg(RecommendTpl, AllFields(df[draw])), draw, TRUE)

search_book(p, df, draw) ==
    LET title == Lower(ParamGet(p, "book_title"))
        match == str_contains(df, "title", re_escape(title))
    IN  IF title # <<>>
        THEN IF match # <<>>
             THEN Rendered(Msg(FoundTpl, AllFields(df[match[1]])), match[1], FALSE)
             ELSE IF draw = 0 THEN Unhandled
             ELSE Rendered(Msg(InsteadTpl, <<title>> \o FieldsNoGenre(df[draw])),
                           draw, TRUE)
        ELSE IF draw = 0 THEN Unhandled
        ELSE Rendered(Msg(RecommendTpl, AllFields(df[draw])), draw, TRUE)

search_author(p, df) ==
    LET author == Lower(ParamGet(p, "author"))
        match == str_contains(df, "author", re_escape(author))
    IN  IF author # <<>>
        THEN IF match # <<>>
             THEN Rendered(Msg("Books by {}:\n{}",
                               <<Title(author),
                                 Join(<<"\n">>, Take(titles_of(df, match), 5))>>),
                           0, FALSE)
             ELSE Rendered(Msg("Sorry, I couldn't find books from {}.", <<author>>),
                           0, FALSE)
        ELSE Rendered(Msg("Please provide an author name.", <<>>), 0, FALSE)

\* a slip in the slice: one title too many
search_by_genre_six(p, df) ==
    LET genre == Lower(ParamGet(p, "genre"))
        match == str_contains(df, "genre", re_escape(genre))
    IN  IF match # <<>>
        THEN Rendered(Msg("Here are some {} books:\n{}",
                          <<Title(genre),
                            Join(<<"\n">>, Take(titles_of(df, match), 6))>>),
                      0, FALSE)
        ELSE Rendered(Msg("Sorry, I couldn't find books in the {} genre.", <<genre>>),
                      0, FALSE)

search_by_genre(p, df) ==
    LET genre == Lower(ParamGet(p, "genre"))
        match == str_contains(df, "genre", re_escape(genre))
    IN  IF match # <<>>
        THEN Rendered(Msg("Here are some {} books:\n{}",
                          <<Title(genre),
                            Join(<<"\n">>, Take(titles_of(df, match), 5))>>),
                      0, FALSE)
        ELSE Rendered(Msg("Sorry, I couldn't find books in the {} genre.", <<genre>>),
                      0, FALSE)

\* The shape the seven field lookups share: the first row whose title
\* contains the lowered parameter, or an apology echoing the lowered parameter.
title_lookup(p, df, field, found, missing) ==
    LET title == Lower(ParamGet(p, "book_title"))
        match == str_contains(df, "title", re_escape(title))
    IN  IF match # <<>>
        THEN LET row == df[match[1]]
             IN  Rendered(Msg(found, <<row.title, row[field]>>), match[1], FALSE)
        ELSE Rendered(Msg(missing, <<title>>), 0, FALSE)

\* a slip: the last match is taken instead of the first
book_page_last(p, df) ==
    LET title == Lower(ParamGet(p, "book_title"))
        match == str_contains(df, "title", re_escape(title))
    IN  IF match # <<>>
        THEN LET row == df[match[Len(match)]]
             IN  Rendered(Msg("'{}' has {} pages.", <<row.title, row.pages>>),
                          match[Len(match)], FALSE)
        ELSE Rendered(Msg("Sorry, I couldn't find page count for '{}'.", <<title>>),
                      0, FALSE)

book_page(p, df) ==
    title_lookup(p, df, "pages", "'{}' has {} pages.",
                 "Sorry, I couldn't find page count for '{}'.")

get_book_genre(p, df) ==
    title_lookup(p, df, "genre", "'{}' belongs to the {} genre.",
                 "Sorry, I couldn't find genre for '{}'.")

book_description(p, df) ==
    title_lookup(p, df, "description", "'{}' description: {}",
                 "Sorry, I couldn't find a description for '{}'.")

published_date_intent(p, df) ==
    title_lookup(p, df, "published_date", "'{}' was published on {}.",
                 "Sorry, I couldn't find the published date for '{}'.")

publisher(p, df) ==
    title_lookup(p, df, "publisher", "The publisher of '{}' is {}.",
                 "Sorry, I couldn't find the publisher for '{}'.")

average_rating(p, df) ==
    title_lookup(p, df, "average_rating", "'{}' has an average rating of {}.",
                 "Sorry, I couldn't find ratings for '{}'.")

thumbnail(p, df) ==
    title_lookup(p, df, "thumbnail", "Here is the cover of '{}': {}",
                 "Sorry, I couldn't find a cover for '{}'.")

\* the if / elif chain of webhook; draw is what books_df.sample(1) would give
route(name, p, df, draw) ==
    CASE name = "greet" ->
            Rendered(Msg("Hello! How can I help you with books today?", <<>>), 0, FALSE)
      [] name = "goodbye" -> Rendered(Msg("Goodbye! Happy reading", <<>>), 0, FALSE)
      [] name = "search_book" -> search_book(p, df, draw)
      [] name = "search_author" -> search_author(p, df)
      [] name = "book_page" -> book_page(p, df)
      [] name = "search_by_genre" -> search_by_genre(p, df)
      [] name = "get_book_genre" -> get_book_genre(p, df)
      [] name = "book_description" -> book_description(p, df)
      [] name = "published_date" -> published_date_intent(p, df)
      [] name = "publisher" -> publisher(p, df)
      [] name = "average_rating" -> average_rating(p, df)
      [] name = "thumbnail" -> thumbnail(p, df)
      [] name = "bot_challenge" ->
            Rendered(Msg("I'm a book assistant bot, here to help you discover books!",
                         <<>>), 0, FALSE)
      [] OTHER -> Rendered(DefaultText, 0, FALSE)

-----------------------------------------------------------------------------
(* Requests *)

Intents ==
    {"greet", "goodbye", "search_book", "search_author", "book_page",
     "search_by_genre", "get_book_genre", "book_description", "published_date",
     "publisher", "average_rating", "thumbnail", "bot_challenge",
     "ask_number_of_pages", "top_rated_books"}

TitleNeedles == {<<>>, <<"D","u">>, <<"s","K">>, <<"Z","z">>}
AuthorNeedles == {<<"H","a">>, <<"Z","z">>}
GenreNeedles == {<<"S","c","i">>, <<"i",".","F">>}

OneParam(key, v) == [k \in {key} |-> v]
ParamMaps ==
    {[k \in {} |-> <<>>]}
    \cup {OneParam("book_title", v) : v \in TitleNeedles}
    \cup {OneParam("author", v) : v \in AuthorNeedles}
    \cup {OneParam("genre", v) : v \in GenreNeedles}

QueryTexts == {Raw(<<"h","i">>), Raw(<<NonAscii>>)}

NoRow == [row |-> 0, sampled |-> FALSE, text |-> None]

\* a slip in the statement order: the query is translated before its
\* language is detected
StepAfter_translate_first(p) ==
    CASE p = "receive" -> "translate_to_english"
      [] p = "translate_to_english" -> "safe_detect_language"
      [] p = "safe_detect_language" -> "dispatch"
      [] p = "dispatch" -> "translate_back"
      [] p = "translate_back" -> "done"

\* the order of the statements of webhook
StepAfter(p) ==
    CASE p = "receive" -> "safe_detect_language"
      [] p = "safe_detect_language" -> "translate_to_english"
      [] p = "translate_to_english" -> "dispatch"
      [] p = "dispatch" -> "translate_back"
      [] p = "translate_back" -> "done"

-----------------------------------------------------------------------------
(* The handler, one action per external call it makes *)

\* GET /webhook: a fixed text and status 200, nothing read or written
verify_webhook ==
    /\ pc = "idle"
    /\ UNCHANGED vars

\* request.get_json and the three req.get chains
Receive ==
    /\ pc = "idle"
    /\ query_text' \in QueryTexts
    /\ intent' \in Intents
    /\ params' \in ParamMaps
    /\ detected_lang' = ""
    /\ translated_query' = None
    /\ response_text' = None
    /\ fulfillmentText' = None
    /\ shown' = NoRow
    /\ trace' = <<>>
    /\ failed' = {}
    /\ pc' = StepAfter("receive")
    /\ UNCHANGED <<books_df, value, published_date>>

\* detected_lang = safe_detect_language(query_text)
Detect ==
    /\ pc = "safe_detect_language"
    /\ \E outcome \in DetectOutcomes(query_text.args[1]) :
          detected_lang' = safe_detect_language(query_text, outcome)
    /\ trace' = Append(trace, "safe_detect_language")
    /\ pc' = StepAfter(pc)
    /\ UNCHANGED <<books_df, query_text, intent, params, translated_query,
                   response_text, fulfillmentText, shown, failed, value,
                   published_date>>

\* translated_query = translate_to_english(query_text)
TranslateToEnglish ==
    /\ pc = "translate_to_english"
    /\ \E ok \in BOOLEAN :
          /\ translated_query' = translate_to_english(query_text, ok)
          /\ failed' = IF ok THEN failed ELSE failed \cup {"translate_to_english"}
    /\ trace' = Append(trace, "translate_to_english")
    /\ pc' = StepAfter(pc)
    /\ UNCHANGED <<books_df, query_text, intent, params, detected_lang,
                   response_text, fulfillmentText, shown, value, published_date>>

\* response_text = default, then the if / elif chain; an exception escaping
\* the chain ends the request without a fulfillmentText
Dispatch ==
    /\ pc = "dispatch"
    /\ \E draw \in Sample(books_df) :
          LET r == route(intent, params, books_df, draw)
          IN  IF r.raised
              THEN /\ pc' = "crashed"
                   /\ response_text' = DefaultText
                   /\ shown' = NoRow
              ELSE /\ pc' = StepAfter(pc)
                   /\ response_text' = r.text
                   /\ shown' = [row |-> r.row, sampled |-> r.sampled, text |-> r.text]
    /\ trace' = Append(trace, "dispatch")
    /\ UNCHANGED <<books_df, query_text, intent, params, detected_lang,
                   translated_query, fulfillmentText, failed, value,
                   published_date>>

\* response_text = translate_back(response_text, detected_lang); return jsonify
TranslateBack ==
    /\ pc = "translate_back"
    /\ \E ok \in (IF BackCalls(detected_lang) THEN BOOLEAN ELSE {TRUE}) :
          /\ response_text' = translate_back(response_text, detected_lang, ok)
          /\ failed' = IF ok THEN failed ELSE failed \cup {"translate_back"}
    /\ fulfillmentText' = response_text'
    /\ trace' = Append(trace, "translate_back")
    /\ pc' = StepAfter(pc)
    /\ UNCHANGED <<books_df, query_text, intent, params, detected_lang,
                   translated_query, shown, value, published_date>>

\* the request is over (a response, or a 500 after an unhandled exception);
\* nothing of it is kept for the next one
Finish ==
    /\ pc \in {"done", "crashed"}
    /\ pc' = "idle"
    /\ query_text' = None
    /\ intent' = ""
    /\ params' = [k \in {} |-> <<>>]
    /\ detected_lang' = ""
    /\ translated_query' = None
    /\ response_text' = None
    /\ fulfillmentText' = None
    /\ shown' = NoRow
    /\ trace' = <<>>
    /\ failed' = {}
    /\ UNCHANGED <<books_df, value, published_date>>

Init ==
    /\ books_df \in Catalogs
    /\ pc = "idle"
    /\ query_text = None
    /\ intent = ""
    /\ params = [k \in {} |-> <<>>]
    /\ detected_lang = ""
    /\ translated_query = None
    /\ response_text = None
    /\ fulfillmentText = None
    /\ shown = NoRow
    /\ trace = <<>>
    /\ failed = {}
    /\ value = NanCell
    /\ published_date = <<>>

Next ==
    \/ verify_webhook
    \/ Receive
    \/ Detect
    \/ TranslateToEnglish
    \/ Dispatch
    \/ TranslateBack
    \/ Finish

Spec == Init /\ [][Next]_vars

-----------------------------------------------------------------------------
(* The language detector on its own *)

DetectAlphabet == {"a", "Z", "7", " ", "?", "-", NonAscii}
DetectTexts == UNION {[1..n -> DetectAlphabet] : n \in 0..MaxTextLen}

InitDetect ==
    /\ books_df = <<>>
    /\ pc = "safe_detect_language"
    /\ query_text \in {Raw(t) : t \in DetectTexts}
    /\ intent = ""
    /\ params = [k \in {} |-> <<>>]
    /\ detected_lang = ""
    /\ translated_query = None
    /\ response_text = None
    /\ fulfillmentText = None
    /\ shown = NoRow
    /\ trace = <<>>
    /\ failed = {}
    /\ value = NanCell
    /\ published_date = <<>>

NextDetect == Detect

SpecDetect == InitDetect /\ [][NextDetect]_vars

-----------------------------------------------------------------------------
(* The date fixer on its own: one published_date cell at load time *)

DateStrings ==
    {<<>>, <<"2","0","0","5">>, <<" ","2","0","0","0","-","0","9"," ">>,
     <<"0","4","/","0","3","/","2","0","1","3">>}

Cells ==
    {NanCell}
    \cup {StrCell(s) : s \in DateStrings}
    \cup {NumCell(n) : n \in (0 - MinNumAbs)..MaxNum}
    \cup {DatetimeCell(ymd2ord(2013, 3, 4)), DatetimeCell(ymd2ord(2000, 2, 29))}
    \cup {InfCell}

InitDate ==
    /\ books_df = <<>>
    /\ pc = "load"
    /\ query_text = None
    /\ intent = ""
    /\ params = [k \in {} |-> <<>>]
    /\ detected_lang = ""
    /\ translated_query = None
    /\ response_text = None
    /\ fulfillmentText = None
    /\ shown = NoRow
    /\ trace = <<>>
    /\ failed = {}
    /\ value \in Cells
    /\ published_date = <<>>

\* books_df["published_date"].apply(excel_date_to_str), one cell
LoadCell ==
    /\ pc = "load"
    /\ published_date' = excel_date_to_str(value)
    /\ pc' = "loaded"
    /\ UNCHANGED <<books_df, query_text, intent, params, detected_lang,
                   translated_query, response_text, fulfillmentText, shown,
                   trace, failed, value>>

NextDate == LoadCell

SpecDate == InitDate /\ [][NextDate]_vars

-----------------------------------------------------------------------------
(* Notions the properties are stated with, kept apart from the operators   *)
(* above so that the properties say something about them                   *)

\* needle occurs in hay as a literal substring, letter case ignored
ContainsCI(hay, needle) ==
    \E off \in 0..(Len(hay) - Len(needle)) :
        \A k \in 1..Len(needle) : LowerChar(hay[off + k]) = LowerChar(needle[k])

\* the rows of the catalog whose field contains the needle
Hits(field, needle) ==
    {i \in 1..Len(books_df) : ContainsCI(books_df[i][field], needle)}

Min(S) == CHOOSE x \in S : \A y \in S : x <= y

\* the elements of a set of numbers, ascending
RECURSIVE Ascending(_)
Ascending(S) == IF S = {} THEN <<>> ELSE <<Min(S)>> \o Ascending(S \ {Min(S)})

\* text.split("\n")
RECURSIVE SplitLines(_)
SplitLines(s) ==
    IF \A i \in 1..Len(s) : s[i] # "\n" THEN <<s>>
    ELSE LET cut == Min({i \in 1..Len(s) : s[i] = "\n"})
         IN  <<SubSeq(s, 1, cut - 1)>> \o SplitLines(SubSeq(s, cut + 1, Len(s)))

\* the number a string of decimal digits writes (-1 when it is not one)
RECURSIVE DigitsValue(_)
DigitsValue(s) ==
    IF s = <<>> \/ \E i \in 1..Len(s) : ~IsDigit(s[i]) THEN 0 - 1
    ELSE LET last == (CHOOSE d \in 1..10 : DigitChars[d] = s[Len(s)]) - 1
         IN  IF Len(s) = 1 THEN last
             ELSE 10 * DigitsValue(SubSeq(s, 1, Len(s) - 1)) + last

\* s is the decimal text of the integer n, as str(n) writes it
IsDecimalOf(s, n) ==
    IF n < 0
    THEN /\ Len(s) >= 2 /\ s[1] = "-" /\ s[2] # "0"
         /\ DigitsValue(Tail(s)) = 0 - n
    ELSE /\ Len(s) >= 1 /\ (s[1] = "0" => Len(s) = 1)
         /\ DigitsValue(s) = n

\* days from 1970-01-01 to the civil date y-m-d (proleptic Gregorian)
CivilDays(y, m, d) ==
    LET yy  == IF m <= 2 THEN y - 1 ELSE y
        era == yy \div 400
        yoe == yy - era * 400
        mp  == IF m > 2 THEN m - 3 ELSE m + 9
        doy == ((153 * mp + 2) \div 5) + d - 1
        doe == yoe * 365 + (yoe \div 4) - (yoe \div 100) + doy
    IN  era * 146097 + doe - 719468

MonthLength(y, m) ==
    IF m = 2 THEN (IF y % 4 = 0 /\ (y % 100 # 0 \/ y % 400 = 0) THEN 29 ELSE 28)
    ELSE IF m \in {4, 6, 9, 11} THEN 30 ELSE 31

\* s reads DD/MM/YYYY and names the day n days after 1899-12-30
IsSerialDate(s, n) ==
    /\ Len(s) = 10 /\ s[3] = "/" /\ s[6] = "/"
    /\ LET d == DigitsValue(SubSeq(s, 1, 2))
           m == DigitsValue(SubSeq(s, 4, 5))
           y == DigitsValue(SubSeq(s, 7, 10))
       IN  /\ m \in 1..12 /\ d >= 1 /\ d <= MonthLength(y, m)
           /\ CivilDays(y, m, d) - CivilDays(1899, 12, 30) = n

IsString(s) == s \in Seq(STRING)

-----------------------------------------------------------------------------
(* C5  the date normalizer on a numeric day-count *)

\* C5, as stated: the normalizer is total and, for a numeric day-count n,
\* n <= 59 comes back as the decimal text of n, n > 59 (not a bare 4-digit
\* year) comes back as 1899-12-30 plus n days in DD/MM/YYYY, normalize(60) is
\* "29/02/1900", normalize(5) is "5", and a bare 4-digit year comes back unchanged.
C5_AsStated ==
    (pc = "loaded" /\ value.kind = "num") =>
        LET n == value.n
            bareYear == 1000 <= n /\ n <= 9999
        IN  /\ n <= 59 => IsDecimalOf(published_date, n)
            /\ (n > 59 /\ ~bareYear) => IsSerialDate(published_date, n)
            /\ bareYear => IsDecimalOf(published_date, n)
            /\ n = 60 => published_date = <<"2","9","/","0","2","/","1","9","0","0">>
            /\ n = 5 => published_date = <<"5">>

\* C5, amended: excel_date_to_str always returns a string and, for a number
\* n (truncated to an int): 1000 <= n <= 2100 comes back as the decimal text of
\* n; otherwise 30 < n < 60000 comes back as 1899-12-30 plus n days in
\* DD/MM/YYYY; otherwise (n <= 30 or n >= 60000) as the decimal text of n.
\* excel_date_to_str(60) is "28/02/1900" and excel_date_to_str(5) is "5".
C5_SerialDates ==
    pc = "loaded" =>
        /\ IsString(published_date)
        /\ value.kind = "num" =>
              LET n == value.n
                  year == 1000 <= n /\ n <= 2100
              IN  /\ year => IsDecimalOf(published_date, n)
                  /\ (~year /\ 30 < n /\ n < 60000) => IsSerialDate(published_date, n)
                  /\ (n <= 30 \/ n >= 60000) => IsDecimalOf(published_date, n)
                  /\ n = 60 => published_date = <<"2","8","/","0","2","/","1","9","0","0">>
                  /\ n = 5 => published_date = <<"5">>

\* serial 60 has been converted
C5_Witness ==
    /\ pc = "loaded"
    /\ value = NumCell(60)
    /\ published_date = <<"2","8","/","0","2","/","1","9","0","0">>

-----------------------------------------------------------------------------
(* C4  the ASCII override of the language detector *)

\* the characters C4 names: ASCII letters, digits, whitespace and ? ! ' , . -
C4_Char(c) ==
    \/ IsLetter(c) \/ IsDigit(c) \/ IsSpace(c)
    \/ c \in {"?", "!", "'", ",", ".", "-"}

\* C4: a text made up only of ASCII letters, digits, whitespace and the
\* punctuation ? ! ' , . - (hyphen included) is detected as English whatever
\* the detector returned, and a detector that raises yields English.
C4_AsciiIsEnglish ==
    (pc = "translate_to_english"
     /\ \A i \in 1..Len(query_text.args[1]) : C4_Char(query_text.args[1][i]))
        => detected_lang = "en"

-----------------------------------------------------------------------------
(* C1  the page-count intent *)

\* dispatch has rendered the response of the request at hand
Dispatched == pc = "translate_back"

PagesTpl == "'{}' has {} pages."
NoPagesTpl == "Sorry, I couldn't find page count for '{}'."

\* C1, as stated: for the intent named "ask_number_of_pages" with
\* book_title = T, the response is "'<Title>' has <N> pages." for the first
\* record whose title contains T (case ignored), and "Sorry, I couldn't find
\* page count for '<T>'." with T exactly as supplied when no title contains T.
C1_AsStated ==
    (Dispatched /\ intent = "ask_number_of_pages") =>
        LET T == ParamGet(params, "book_title")
            hits == Hits("title", T)
        IN  IF hits # {}
            THEN response_text =
                    Msg(PagesTpl, <<books_df[Min(hits)].title, books_df[Min(hits)].pages>>)
            ELSE response_text = Msg(NoPagesTpl, <<T>>)

\* C1, amended: the page-count intent is named "book_page"; with
\* book_title = T the response is "'<Title>' has <N> pages." for the first
\* record whose title contains T (case ignored), and when no title contains T
\* it is "Sorry, I couldn't find page count for '<t>'." with t the lower-cased
\* T.  The name "ask_number_of_pages" gets the default "Sorry, I didn't get that."
C1_BookPage ==
    /\ (Dispatched /\ intent = "book_page") =>
          LET T == ParamGet(params, "book_title")
              hits == Hits("title", T)
          IN  IF hits # {}
              THEN response_text =
                      Msg(PagesTpl, <<books_df[Min(hits)].title, books_df[Min(hits)].pages>>)
              ELSE response_text = Msg(NoPagesTpl, <<Lower(T)>>)
    /\ (Dispatched /\ intent = "ask_number_of_pages") => response_text = DefaultText

\* a mixed-case title that no record contains has been echoed in lower case
C1_Witness ==
    /\ Dispatched /\ intent = "book_page"
    /\ ParamGet(params, "book_title") = <<"Z","z">>
    /\ Len(books_df) >= 2
    /\ response_text = Msg(NoPagesTpl, <<<<"z","z">>>>)

-----------------------------------------------------------------------------
(* C2  blank parameters *)

LookupIntents ==
    {"search_book", "search_author", "search_by_genre", "book_page",
     "get_book_genre", "book_description", "published_date", "publisher",
     "average_rating", "thumbnail"}

RelevantParam(name) ==
    CASE name = "search_author" -> "author"
      [] name = "search_by_genre" -> "genre"
      [] OTHER -> "book_title"

ListTpls == {"Books by {}:\n{}", "Here are some {} books:\n{}"}

\* C2: for every lookup intent, a blank or absent parameter never yields a
\* response that reports a fact about, or lists titles of, catalog records as
\* if they had matched (the only record it may show is a sampled recommendation).
C2_BlankNeverMatches ==
    (Dispatched /\ intent \in LookupIntents
     /\ ParamGet(params, RelevantParam(intent)) = <<>>)
        => /\ shown.row = 0 \/ shown.sampled
           /\ response_text.tpl \notin ListTpls

-----------------------------------------------------------------------------
(* C3  translation failures *)

\* C3, as stated: if the translator fails on any call of a request
\* (to-English, back-translation, or both), the fulfillmentText the request
\* returns is exactly the untranslated text dispatch rendered.
C3_AsStated ==
    (pc = "done" /\ failed # {}) => fulfillmentText = shown.text

Count(seq, x) == Cardinality({i \in 1..Len(seq) : seq[i] = x})

\* C3, amended: if the back-translation call of a request fails, the request
\* returns and its fulfillmentText is exactly the untranslated text dispatch
\* rendered; a failure of the to-English call alone does not change the
\* response, which is then the rendered text back-translated to the detected
\* locale.  No translation failure ends a request and no call is made twice.
C3_BackFailureUntranslated ==
    /\ (pc = "done" /\ "translate_back" \in failed) => fulfillmentText = shown.text
    /\ (pc = "done" /\ "translate_back" \notin failed) =>
          fulfillmentText = [shown.text EXCEPT !.lang = detected_lang]
    /\ pc = "crashed" => trace[Len(trace)] = "dispatch"
    /\ Count(trace, "translate_to_english") <= 1
    /\ Count(trace, "translate_back") <= 1
    /\ "translate_back" \in failed => pc = "done"

\* a request whose back-translation failed has returned the rendered text
C3_Witness ==
    /\ pc = "done"
    /\ failed = {"translate_to_english", "translate_back"}
    /\ detected_lang = "fr"
    /\ intent = "book_page"
    /\ fulfillmentText = shown.text
    /\ fulfillmentText.lang = "en"

-----------------------------------------------------------------------------
(* C6  no unhandled failure *)

\* C6: every request ends by returning a fulfillmentText, never with an
\* unhandled failure, and on an empty catalog search_book takes the ordinary
\* no-match apology branch.
C6_NeverUnhandled ==
    /\ pc # "crashed"
    /\ (Dispatched /\ intent = "search_book" /\ books_df = <<>>) =>
          /\ response_text.tpl # "None"
          /\ shown.row = 0

-----------------------------------------------------------------------------
(* C7  the multi-result intents *)

AtMost(n, m) == IF n < m THEN n ELSE m

\* C7: for search_by_genre and search_author with a non-blank parameter that
\* matches k catalog records, the response lists exactly min(k, 5) titles: the
\* first min(k, 5) matching records in catalog order, newline-joined.
C7_FirstFive ==
    (Dispatched /\ intent \in {"search_by_genre", "search_author"}
     /\ ParamGet(params, RelevantParam(intent)) # <<>>) =>
        LET hits == Hits(RelevantParam(intent), ParamGet(params, RelevantParam(intent)))
            k == Cardinality(hits)
            order == Ascending(hits)
        IN  IF k = 0 THEN response_text.tpl \notin ListTpls
            ELSE /\ response_text.tpl \in ListTpls
                 /\ SplitLines(response_text.args[2])
                       = [j \in 1..AtMost(k, 5) |-> books_df[order[j]].title]

\* six records match the genre and five titles are listed
C7_Witness ==
    /\ Dispatched /\ intent = "search_by_genre"
    /\ Cardinality(Hits("genre", ParamGet(params, "genre"))) >= 6
    /\ ParamGet(params, "genre") # <<>>
    /\ books_df[2] = RowDusk
    /\ Len(SplitLines(response_text.args[2])) = 5

-----------------------------------------------------------------------------
(* C8  the top-rated listing *)

\* a rating "d.d" in tenths; anything else is unparseable and sorts last
RatingValue(s) ==
    IF Len(s) = 3 /\ IsDigit(s[1]) /\ s[2] = "." /\ IsDigit(s[3])
    THEN 10 * DigitsValue(<<s[1]>>) + DigitsValue(<<s[3]>>)
    ELSE 0 - 1

\* the rows of S by rating descending, ties in catalog order
RECURSIVE Ranked(_)
Ranked(S) ==
    IF S = {} THEN <<>>
    ELSE LET best == CHOOSE i \in S : \A j \in S :
                        \/ RatingValue(books_df[i].average_rating)
                              > RatingValue(books_df[j].average_rating)
                        \/ /\ RatingValue(books_df[i].average_rating)
                                = RatingValue(books_df[j].average_rating)
                           /\ i <= j
         IN  <<best>> \o Ranked(S \ {best})

RECURSIVE Leaderboard(_)
Leaderboard(rows) ==
    IF rows = <<>> THEN <<>>
    ELSE <<books_df[Head(rows)].title, books_df[Head(rows)].author,
           books_df[Head(rows)].average_rating>> \o Leaderboard(Tail(rows))

\* C8: the top-rated listing intent renders the first min(5, catalog size)
\* records by average_rating descending (unparseable last, ties in catalog
\* order) as title, author and rating, and on an empty catalog it reports that
\* the dataset is empty rather than the default apology.
C8_TopRated ==
    (Dispatched /\ intent = "top_rated_books") =>
        /\ response_text # DefaultText
        /\ response_text.args = Leaderboard(Take(Ranked(1..Len(books_df)), 5))

-----------------------------------------------------------------------------
(* C9  the order of the steps of a request *)

CodeOrder ==
    <<"safe_detect_language", "translate_to_english", "dispatch", "translate_back">>

-----------------------------------------------------------------------------
(* C10  the record search_book shows *)

\* C10: the record search_book shows is always a record of the catalog; it is
\* a sampled one only when book_title is blank or no title contains it, and
\* whenever a title contains the non-blank book_title it is the first matching
\* record in catalog order.
C10_ShownRecord ==
    (Dispatched /\ intent = "search_book") =>
        LET T == ParamGet(params, "book_title")
            hits == Hits("title", T)
            shift == IF response_text.tpl = InsteadTpl THEN 1 ELSE 0
        IN  /\ shown.row \in 1..Len(books_df)
            /\ response_text.args[1 + shift] = books_df[shown.row].title
            /\ response_text.args[2 + shift] = books_df[shown.row].author
            /\ response_text.args[Len(response_text.args)] = books_df[shown.row].thumbnail
            /\ shown.sampled => (T = <<>> \/ hits = {})
            /\ (T # <<>> /\ hits # {}) =>
                  /\ ~shown.sampled
                  /\ shown.row = Min(hits)
                  /\ response_text.tpl = FoundTpl

\* the title matches a later row only, and that row is the one shown
C10_Witness ==
    /\ Dispatched /\ intent = "search_book"
    /\ ParamGet(params, "book_title") = <<"s","K">>
    /\ Len(books_df) >= 3
    /\ shown.row = 2
    /\ ~shown.sampled
    /\ response_text.args[1] = <<"D","u","s","k">>

====
